---- MODULE Spec2Model ----
(***************************************************************************)
(* The SSH remote client of the scope network layer: one client object,    *)
(* its connection field, the commands handed to the connection and the     *)
(* completion callbacks the connection library delivers.                   *)
(*                                                                         *)
(* Strings are sequences of one-character strings.  A JavaScript value     *)
(* that is "a string or undefined" is a sequence of at most one string:    *)
(* <<>> is undefined, <<s>> is the string s.                               *)
(***************************************************************************)
EXTENDS Integers, Sequences, FiniteSets, TLC

\* ---------------------------------------------------------------- bounds
\* longest remote output drawn when the payload decoders are exercised
MaxLen == 4
\* longest remote output drawn in the life-cycle specification
MaxShort == 1
\* connections one client may create in a run
MaxConns == 2
\* commands that may be awaiting their callback at once
MaxInflight == 2
\* calls of Box.write in a run
MaxWrites == 2

\* ------------------------------------------------------------ characters
NL == "\n"
DELIM == "+"
\* the characters a string may hold, in code order
Alphabet ==
  <<"1", "0", NL, DELIM, "/", "~", "a", "b", "-", "n", "t", "r", "u", "e", "f",
    "l", "s", " ", "_", "p", "c", "h", "i", "d", "o">>
\* the digits of the transport encoding, two per character
Digits == <<"0", "1", "2", "3", "4">>
Base == Len(Digits)
\* the characters the remote side writes in the outputs drawn here
OutChars == {NL, DELIM, "0", "1"}

StringsUpTo(S, n) == UNION {[1..k -> S] : k \in 0..n}

undefined == <<>>
Str(s) == <<s>>
\* JavaScript truthiness of a string-or-undefined value
Truthy(m) == m # <<>> /\ m[1] # <<>>

CodeOf(c) == CHOOSE k \in 1..Len(Alphabet) : Alphabet[k] = c
DigitOf(d) == CHOOSE k \in 1..Len(Digits) : Digits[k] = d
IsDigit(c) == \E k \in 1..Len(Digits) : Digits[k] = c

\* utils toBase64: every character becomes two digits of the code alphabet
RECURSIVE toBase64(_)
toBase64(s) ==
  IF s = <<>> THEN <<>>
  ELSE LET k == CodeOf(Head(s)) - 1
       IN <<Digits[(k \div Base) + 1], Digits[(k % Base) + 1]>> \o toBase64(Tail(s))

RECURSIVE DecodePairs(_)
DecodePairs(d) ==
  IF Len(d) < 2 THEN <<>>
  ELSE <<Alphabet[(DigitOf(d[1]) - 1) * Base + (DigitOf(d[2]) - 1) + 1]>>
       \o DecodePairs(SubSeq(d, 3, Len(d)))

\* utils fromBase64: characters outside the code alphabet are skipped, an
\* incomplete trailing group is dropped; it never throws
fromBase64(s) == DecodePairs(SelectSeq(s, IsDigit))

\* ------------------------------------------------------- pure functions
absolutePath_NoHome(path) == path
absolutePath(path) ==
  IF path = <<>> \/ Head(path) # "/" THEN <<"~", "/">> \o path ELSE path

\* String.prototype.replace with a string pattern: the first match only
clean_All(str) == SelectSeq(str, LAMBDA c : c # NL)
RECURSIVE clean(_)
clean(str) ==
  IF str = <<>> THEN <<>>
  ELSE IF Head(str) = NL THEN Tail(str)
  ELSE <<Head(str)>> \o clean(Tail(str))
\* ------------------------------------------------------------- outcomes
\* A promise's fate: kind is "resolve", "reject", "pending" (never settled)
\* or "none"; error names the exception class, id is the string the
\* exception carries (if any), value the array resolved with: one slot for
\* a single value, each slot a string-or-null.
NoOutcome == [kind |-> "none", error |-> "", id |-> undefined, value |-> <<>>]
Resolve(v) == [kind |-> "resolve", error |-> "", id |-> undefined, value |-> v]
Reject(e, i) == [kind |-> "reject", error |-> e, id |-> i, value |-> <<>>]
Pending == [kind |-> "pending", error |-> "", id |-> undefined, value |-> <<>>]

\* status codes; NoCode is a missing code property
NoCode == -1
OtherCode == 1
Codes == {0, OtherCode, 127, 128, 129, 130}

\* the three callback arguments of the connection library
NoErr == [present |-> FALSE, code |-> NoCode, id |-> undefined]
Err(c, i) == [present |-> TRUE, code |-> c, id |-> i]
NoInfo == [present |-> FALSE, code |-> NoCode]
Info(c) == [present |-> TRUE, code |-> c]

errorHandler(err, optionalId) ==
  CASE err.code = 127 ->
         Reject("ComponentNotFound", IF Truthy(err.id) THEN err.id ELSE optionalId)
    [] err.code = 128 -> Reject("PermissionDenied", undefined)
    [] err.code = 129 -> Reject("RemoteScopeNotFound", undefined)
    [] err.code = 130 -> Reject("PermissionDenied", undefined)
    [] OTHER -> Reject("UnexpectedNetworkError", undefined)

\* the callback of SSH.exec; clean(undefined) throws inside the callback,
\* outside the promise executor, so the promise is never settled
execCallback(err, res, o) ==
  IF ~o.present THEN Reject("UnexpectedNetworkError", undefined)
  ELSE IF err.present /\ o.code # NoCode /\ o.code # 0 THEN errorHandler(err, res)
  ELSE IF res = undefined THEN Pending
  ELSE Resolve(<<Str(clean(res[1]))>>)

\* --------------------------------------------------------- collaborators
\* cli-utils unpack: the items between the framing delimiters
RECURSIVE unpack(_)
unpack(str) ==
  IF \A i \in 1..Len(str) : str[i] # DELIM THEN <<str>>
  ELSE LET i == CHOOSE k \in 1..Len(str) :
                  str[k] = DELIM /\ \A j \in 1..(k - 1) : str[j] # DELIM
       IN <<SubSeq(str, 1, i - 1)>> \o unpack(SubSeq(str, i + 1, Len(str)))

\* Array.prototype.toString: the items joined by commas
RECURSIVE ArrayToString(_)
ArrayToString(items) ==
  IF items = <<>> THEN <<>>
  ELSE IF Len(items) = 1 THEN items[1]
  ELSE items[1] \o <<",">> \o ArrayToString(Tail(items))

RECURSIVE StripLeft(_)
StripLeft(s) == IF s # <<>> /\ Head(s) = NL THEN StripLeft(Tail(s)) ELSE s
RECURSIVE StripRight(_)
StripRight(s) ==
  IF s # <<>> /\ s[Len(s)] = NL THEN StripRight(SubSeq(s, 1, Len(s) - 1)) ELSE s

\* JSON.parse on the documents these characters can spell: a number with
\* optional surrounding whitespace; the value is the number's digits
JSONparse(s) ==
  LET t == StripRight(StripLeft(s))
      ok == /\ t # <<>>
            /\ \A i \in 1..Len(t) : t[i] \in {"0", "1"}
            /\ (t[1] = "1" \/ Len(t) = 1)
  IN [ok |-> ok, value |-> IF ok THEN t ELSE <<>>]

\* the serialized form of the nil sentinel
NilDocument == <<"0">>

\* ConsumerComponent.fromString / ComponentObjects.fromString: "throw" for
\* text that is no document, "nil" for the nil sentinel, else the object
fromString(s) ==
  LET p == JSONparse(s)
  IN IF ~p.ok THEN [kind |-> "throw", value |-> <<>>]
     ELSE IF p.value = NilDocument THEN [kind |-> "nil", value |-> <<>>]
     ELSE [kind |-> "ok", value |-> p.value]
\* ------------------------------------------------------------ operations
\* a call of an operation method: ids for show/fetch, flag for reindex or
\* noDeps, text for the serialized objects of push or the query of search
MkCall(op, ids, flag, text) == [op |-> op, ids |-> ids, flag |-> flag, text |-> text]
NoCall == MkCall("none", <<>>, FALSE, <<>>)
IdA == <<"a">>
IdB == <<"b">>
Calls ==
  {MkCall("push", <<>>, FALSE, <<"1">>), MkCall("describeScope", <<>>, FALSE, <<>>),
   MkCall("list", <<>>, FALSE, <<>>), MkCall("search", <<>>, TRUE, <<"a">>),
   MkCall("show", <<IdA>>, FALSE, <<>>)}
  \cup {MkCall("fetch", <<IdA, IdB>>, f, <<>>) : f \in BOOLEAN}

\* the operations the life-cycle runs interleave
LifeCalls == {c \in Calls : c.op \in {"list", "show"}}

BoolToString(b) == IF b THEN <<"t", "r", "u", "e">> ELSE <<"f", "a", "l", "s", "e">>

\* the command name and the arguments each operation passes to exec
commandName(c) ==
  CASE c.op = "push" -> <<"_", "p", "u", "t">>
    [] c.op = "describeScope" -> <<"_", "s", "c", "o", "p", "e">>
    [] c.op = "list" -> <<"_", "l", "i", "s", "t">>
    [] c.op = "search" -> <<"_", "s", "e", "a", "r", "c", "h">>
    [] c.op = "show" -> <<"_", "s", "h", "o", "w">>
    [] c.op = "fetch" ->
         <<"_", "f", "e", "t", "c", "h", " ">> \o (IF c.flag THEN <<"-", "n">> ELSE <<>>)

execArgs(c) ==
  CASE c.op = "push" -> <<c.text>>
    [] c.op = "search" -> <<c.text, BoolToString(c.flag)>>
    [] c.op = "show" -> c.ids
    [] c.op = "fetch" -> c.ids
    [] OTHER -> <<>>

RECURSIVE JoinSpace(_)
JoinSpace(toks) ==
  IF toks = <<>> THEN <<>>
  ELSE IF Len(toks) = 1 THEN toks[1]
  ELSE toks[1] \o <<" ">> \o JoinSpace(Tail(toks))

buildCmd(name, args) ==
  <<"b", "i", "t", " ">> \o name \o <<" ">>
    \o JoinSpace([i \in 1..Len(args) |-> toBase64(args[i])])

\* the command line exec builds for a call on a client with this path
execCmd(p, c) == buildCmd(commandName(c), <<absolutePath(p)>> \o execArgs(c))

rejectNils_KeepAll(xs) == xs
rejectNils(xs) == SelectSeq(xs, LAMBDA x : x # <<>>)

pushThen_NoDecode(str) ==
  LET d == fromString(str)
  IN IF d.kind = "throw" THEN Reject("NetworkError", Str(str))
     ELSE Resolve(<<IF d.kind = "nil" THEN <<>> ELSE Str(d.value)>>)
pushThen(str) ==
  LET d == fromString(fromBase64(str))
  IN IF d.kind = "throw" THEN Reject("NetworkError", Str(str))
     ELSE Resolve(<<IF d.kind = "nil" THEN <<>> ELSE Str(d.value)>>)

describeScopeThen(e) ==
  IF e.kind = "resolve"
  THEN LET p == JSONparse(fromBase64(e.value[1][1]))
       IN IF p.ok THEN Resolve(<<Str(p.value)>>)
          ELSE Reject("RemoteScopeNotFound", undefined)
  ELSE Reject("RemoteScopeNotFound", undefined)

listThen(str) ==
  LET components == unpack(str)
      parsed == [i \in 1..Len(components) |->
                   IF components[i] # <<>> THEN fromString(components[i])
                   ELSE [kind |-> "nil", value |-> <<>>]]
  IN IF \E i \in 1..Len(parsed) : parsed[i].kind = "throw"
     THEN Reject("DeserializeError", undefined)
     ELSE Resolve(rejectNils([i \in 1..Len(parsed) |->
            IF parsed[i].kind = "nil" THEN <<>> ELSE Str(parsed[i].value)]))

searchThen(str) ==
  LET p == JSONparse(str)
  IN IF p.ok THEN Resolve(<<Str(p.value)>>) ELSE Reject("SyntaxError", undefined)

showThen(str) ==
  LET component == unpack(str)
  IN IF str # <<>>
     THEN LET d == fromString(ArrayToString(component))
          IN IF d.kind = "throw" THEN Reject("DeserializeError", undefined)
             ELSE Resolve(<<IF d.kind = "nil" THEN <<>> ELSE Str(d.value)>>)
     ELSE Resolve(<< <<>> >>)

fetchThen(str) ==
  LET components == unpack(str)
      parsed == [i \in 1..Len(components) |-> fromString(components[i])]
  IN IF \E i \in 1..Len(parsed) : parsed[i].kind = "throw"
     THEN Reject("DeserializeError", undefined)
     ELSE Resolve([i \in 1..Len(parsed) |->
            IF parsed[i].kind = "nil" THEN <<>> ELSE Str(parsed[i].value)])

\* the promise an operation returns, given the fate e of its exec promise
opThen(c, e) ==
  IF c.op = "describeScope" THEN
    IF e.kind = "pending" THEN Pending ELSE describeScopeThen(e)
  ELSE IF e.kind # "resolve" THEN e
  ELSE LET str == e.value[1][1]
       IN CASE c.op = "push" -> pushThen(str)
            [] c.op = "list" -> listThen(str)
            [] c.op = "search" -> searchThen(str)
            [] c.op = "show" -> showThen(str)
            [] c.op = "fetch" -> fetchThen(str)
\* ----------------------------------------------------------------- state
VARIABLES
  path,        \* this.path, set by the constructor
  username,    \* this.username
  port,        \* this.port, in its decimal digits
  host,        \* this.host
  conns,       \* per created connection: the url it targets, whether its
               \* authentication and network setup succeed
  connection,  \* this.connection: 0 is undefined, else the connection's number
  nconn,       \* connections created so far by sequest.connect
  ended,       \* the connections on which end() has been called
  inflight,    \* commands handed to a connection, callback not yet delivered
  last,        \* what the latest method call or callback did
  box,         \* a Box: its path and created fields
  writes       \* the promise chain of each call of box.write()

vars ==
  <<path, username, port, host, conns, connection, nconn, ended, inflight, last, box, writes>>
endpoint == <<path, username, port, host>>
client == <<endpoint, conns, connection, nconn, ended, inflight, last>>

Paths == {<<>>, <<"a">>, <<"/", "a">>}
\* the host property given to the constructor, possibly missing
Hosts == {undefined, Str(<<"h">>)}

Event(kind, c, conn, closed, sent, err, res, o, exec, result, raised) ==
  [kind |-> kind, call |-> c, conn |-> conn, closed |-> closed, sent |-> sent,
   err |-> err, res |-> res, o |-> o, exec |-> exec, result |-> result,
   raised |-> raised]
NoEvent ==
  Event("none", NoCall, 0, FALSE, FALSE, NoErr, undefined, NoInfo, NoOutcome, NoOutcome, FALSE)

\* the client right after construction with one of the given paths and
\* host properties; a missing host is stored as the empty string
Constructed(paths, hosts) ==
  /\ box = [path |-> <<>>, created |-> FALSE]
  /\ writes = <<>>
  /\ path \in paths
  /\ username = <<"u">>
  /\ port = <<"2", "2">>
  /\ host \in {IF Truthy(h) THEN h[1] ELSE <<>> : h \in hosts}
  /\ conns = <<>>
  /\ connection = 0
  /\ nconn = 0
  /\ ended = {}
  /\ inflight = <<>>
  /\ last = NoEvent

\* calling this.connection(...) or this.connection.end() throws a TypeError
\* when the field is undefined
isUndefined_Never(conn) == FALSE
isUndefined(conn) == conn = 0

composeConnectionUrl_NoHost(u, h, p) == u \o <<"@", ":">> \o p
composeConnectionUrl(u, h, p) == u \o <<"@">> \o h \o <<":">> \o p

\* this.connection(cmd, cb): the command joins those awaiting a callback
handOff_Twice(q, e) == Append(Append(q, e), e)
handOff(q, e) == Append(q, e)

\* SSH.connect. outcome "throws": keyGetter or sequest.connect throws;
\* "up": sequest.connect returns a connection whose setup succeeds; "down":
\* it returns a connection whose authentication or network setup, which
\* runs after connect has returned, fails.
\* once: the caller connects a client a single time.
Connect(outcome, once) ==
  /\ nconn < MaxConns
  /\ once => nconn = 0
  /\ IF outcome # "throws"
     THEN /\ nconn' = nconn + 1
          /\ connection' = nconn + 1
          /\ conns' = Append(conns, [url |-> composeConnectionUrl(username, host, port),
                                     up |-> outcome = "up"])
          /\ last' = Event("connect", NoCall, nconn + 1, FALSE, FALSE, NoErr, undefined,
                           NoInfo, NoOutcome, Resolve(<<>>), FALSE)
     ELSE /\ UNCHANGED <<nconn, connection, conns>>
          /\ last' = Event("connect", NoCall, connection, FALSE, FALSE, NoErr, undefined,
                           NoInfo, NoOutcome, Reject("ConnectError", undefined), FALSE)
  /\ UNCHANGED <<endpoint, ended, inflight, box, writes>>

\* SSH.close
\* idle: the caller closes only when no operation is outstanding.
Close(idle) ==
  /\ idle => inflight = <<>>
  /\ IF isUndefined(connection)
     THEN /\ UNCHANGED ended
          /\ last' = Event("close", NoCall, connection, FALSE, FALSE, NoErr, undefined,
                           NoInfo, NoOutcome, NoOutcome, TRUE)
     ELSE /\ ended' = ended \cup {connection}
          /\ last' = Event("close", NoCall, connection, connection \in ended, FALSE, NoErr,
                           undefined, NoInfo, NoOutcome, NoOutcome, FALSE)
  /\ UNCHANGED <<endpoint, conns, connection, nconn, inflight, box, writes>>

\* an operation method up to the point where exec has run its executor: the
\* command line is built and handed to this.connection, or the call of an
\* undefined connection throws and rejects the exec promise.
\* awaited: the caller starts an operation only when none is outstanding
\* and not on a connection it has closed.
Call(c, awaited) ==
  /\ Len(inflight) < MaxInflight
  /\ awaited => (inflight = <<>> /\ connection \notin ended)
  /\ IF isUndefined(connection)
     THEN /\ UNCHANGED inflight
          /\ last' = Event("call", c, connection, FALSE, FALSE, NoErr, undefined, NoInfo,
                           Reject("TypeError", undefined),
                           opThen(c, Reject("TypeError", undefined)), FALSE)
     ELSE /\ inflight' = handOff(inflight,
                           [call |-> c, cmd |-> execCmd(path, c), conn |-> connection,
                            closed |-> connection \in ended])
          /\ last' = Event("call", c, connection, connection \in ended, TRUE, NoErr,
                           undefined, NoInfo, Pending, Pending, FALSE)
  /\ UNCHANGED <<endpoint, conns, connection, nconn, ended, box, writes>>

\* the connection delivers the completion callback of command i
Callback(i, err, res, o) ==
  /\ i \in 1..Len(inflight)
  /\ LET e == inflight[i]
         x == execCallback(err, res, o)
     IN last' = Event("callback", e.call, e.conn, e.closed, TRUE, err, res, o, x,
                      opThen(e.call, x), FALSE)
  /\ inflight' = [j \in 1..(Len(inflight) - 1) |->
                    IF j < i THEN inflight[j] ELSE inflight[j + 1]]
  /\ UNCHANGED <<endpoint, conns, connection, nconn, ended, box, writes>>

\* ------------------------------------------------------------------- Box
\* the collaborators' calls Box.write chains, in chain order
writeSteps_ExternalFirst == <<"bitJson.write", "external.ensureDir", "inline.ensureDir">>
writeSteps == <<"bitJson.write", "inline.ensureDir", "external.ensureDir">>

\* a box right after construction (Box.create: created, Box.load: not) and
\* a client that is never used
BoxConstructed(paths) ==
  /\ box \in [path : paths, created : BOOLEAN]
  /\ writes = <<>>
  /\ path = <<"a">>
  /\ username = <<"u">>
  /\ port = <<"2", "2">>
  /\ host = <<"h">>
  /\ conns = <<>>
  /\ connection = 0
  /\ nconn = 0
  /\ ended = {}
  /\ inflight = <<>>
  /\ last = NoEvent

\* Box.write up to its return: bitJson.write() is called and the three
\* then-handlers are chained on its promise.  started: the collaborator
\* calls made so far; done: how many of them have fulfilled; failed: the
\* number of the call that rejected, 0 if none; state and value: the fate
\* of the promise write() returned.
Write ==
  /\ Len(writes) < MaxWrites
  /\ writes' = Append(writes, [started |-> <<writeSteps[1]>>, done |-> 0, failed |-> 0,
                               state |-> "pending", value |-> <<>>])
  /\ UNCHANGED <<client, box>>

\* the collaborator call in progress of chain w settles: fulfilled, the next
\* then-handler runs (createInlineDir, createExternalDir, returnBox);
\* rejected, the rejection passes down the chain and no handler runs
StepSettles(w, ok) ==
  /\ w \in 1..Len(writes)
  /\ writes[w].state = "pending"
  /\ LET c == writes[w]
         n == c.done + 1
     IN writes' = [writes EXCEPT ![w] =
          IF ~ok THEN [c EXCEPT !.failed = n, !.state = "rejected"]
          ELSE IF n = Len(writeSteps)
               THEN [c EXCEPT !.done = n, !.state = "resolved", !.value = <<box>>]
               ELSE [c EXCEPT !.done = n, !.started = Append(c.started, writeSteps[n + 1])]]
  /\ UNCHANGED <<client, box>>

\* ------------------------------------------------------ callback inputs
RemoteId == <<"b">>
Maybe(S) == {undefined} \cup {Str(s) : s \in S}

\* life-cycle runs: a success, an empty success, a classified failure, a
\* dead process
LifeInputs ==
  {<<NoErr, Str(<<"1", NL>>), Info(0)>>,
   <<NoErr, Str(<<>>), Info(0)>>,
   <<Err(127, undefined), Str(<<>>), Info(127)>>,
   <<NoErr, undefined, NoInfo>>}

\* every error object against every completion status
ClassifyInputs ==
  ({NoErr, Err(127, Str(RemoteId))} \cup {Err(c, undefined) : c \in Codes \cup {NoCode}})
    \X Maybe(StringsUpTo(OutChars, MaxShort))
    \X ({NoInfo} \cup {Info(c) : c \in Codes \cup {NoCode}})

\* every payload up to MaxLen characters on a successful command
DecodeInputs ==
  {NoErr}
    \X {Str(s) : s \in StringsUpTo(OutChars, MaxLen)}
    \X {Info(0)}

\* payloads on a command that ends with a failure status and no error object
StatusInputs ==
  {NoErr}
    \X {Str(s) : s \in StringsUpTo(OutChars, MaxShort + 1)}
    \X {Info(127)}

ExecInputs == ClassifyInputs \cup DecodeInputs \cup StatusInputs

\* ------------------------------------------------------- specifications
\* any caller: connects again, overlaps operations, calls after close
Next ==
  \/ \E outcome \in {"throws", "up"} : Connect(outcome, FALSE)
  \/ Close(FALSE)
  \/ \E c \in LifeCalls : Call(c, FALSE)
  \/ \E i \in 1..MaxInflight, in \in LifeInputs : Callback(i, in[1], in[2], in[3])

Init == Constructed(Paths, {Str(<<"h">>)})

Spec == Init /\ [][Next]_vars

\* an orderly caller (connects once, awaits each operation, closes when
\* idle, calls nothing after close) against every callback input
NextExec ==
  \/ \E outcome \in {"throws", "up"} : Connect(outcome, TRUE)
  \/ Close(TRUE)
  \/ \E c \in Calls : Call(c, TRUE)
  \/ \E in \in ExecInputs : Callback(1, in[1], in[2], in[3])

InitExec == Constructed({<<"a">>}, {Str(<<"h">>)})

SpecExec == InitExec /\ [][NextExec]_vars

\* an orderly caller on every constructed endpoint, with connections whose
\* setup fails after connect has returned
NextSetup ==
  \/ \E outcome \in {"throws", "up", "down"} : Connect(outcome, TRUE)
  \/ Close(TRUE)
  \/ \E c \in LifeCalls : Call(c, TRUE)
  \/ \E in \in LifeInputs : Callback(1, in[1], in[2], in[3])

InitSetup == Constructed(Paths, Hosts)

SpecSetup == InitSetup /\ [][NextSetup]_vars

\* calls of box.write() and the settling of the collaborator calls they
\* chain, in any interleaving
NextBox ==
  \/ Write
  \/ \E w \in 1..MaxWrites, ok \in BOOLEAN : StepSettles(w, ok)

InitBox == BoxConstructed(Paths)

SpecBox == InitBox /\ [][NextBox]_vars
\* ----------------------------------------------------------------- claims
AllNewlines(s) == \A i \in 1..Len(s) : s[i] = NL

\* C1: every completion delivered to exec produces exactly the outcome of
\* the status table: no outcome object -> UnexpectedNetworkError, status 0
\* -> the promise resolves, 127 -> ComponentNotFound, 128 and 130 ->
\* PermissionDenied, 129 -> RemoteScopeNotFound, any other non-zero status
\* -> UnexpectedNetworkError, whatever the error object and the output
\* string are.
C1_StatusTable ==
  (last.kind = "callback" /\ last.res # undefined) =>
    LET x == last.exec
        fails(e) == x.kind = "reject" /\ x.error = e
    IN IF ~last.o.present THEN fails("UnexpectedNetworkError")
       ELSE CASE last.o.code = 0 -> x.kind = "resolve"
              [] last.o.code = 127 -> fails("ComponentNotFound")
              [] last.o.code = 128 -> fails("PermissionDenied")
              [] last.o.code = 129 -> fails("RemoteScopeNotFound")
              [] last.o.code = 130 -> fails("PermissionDenied")
              [] last.o.code = NoCode -> TRUE
              [] OTHER -> fails("UnexpectedNetworkError")

\* C2: when show's command ends with status 127, the ComponentNotFound
\* failure carries the id reported by the
\* remote side if there is one, and otherwise the id the caller passed to
\* show; never anything else.
C2_NotFoundCarriesCallerId ==
  (last.kind = "callback" /\ last.call.op = "show" /\ last.res # undefined
     /\ last.o.present /\ last.o.code = 127
     /\ last.exec.kind = "reject" /\ last.exec.error = "ComponentNotFound") =>
    last.exec.id = (IF Truthy(last.err.id) THEN last.err.id ELSE Str(last.call.ids[1]))

\* C3: an operation called after close() (and before any later connect)
\* fails with a UsageError and hands no command to the closed connection.
C3_ExecAfterCloseIsUsageError ==
  (last.kind \in {"call", "callback"} /\ last.closed) =>
    /\ ~last.sent
    /\ last.exec.kind = "reject"
    /\ last.exec.error = "UsageError"

\* C4: while the client has no Connection (connect never succeeded), every
\* operation call is rejected: its promise fails, it never resolves and no
\* command line is handed to a connection.
C4_NoConnectionRejects ==
  /\ (last.kind = "call" /\ last.conn = 0) =>
       (last.result.kind = "reject" /\ ~last.sent)
  /\ connection = 0 => inflight = <<>>
  /\ \A i \in 1..Len(inflight) : inflight[i].conn # 0
  /\ last.kind = "callback" => last.conn # 0

C4_Witness ==
  /\ last.kind = "call"
  /\ last.conn = 0
  /\ last.call.op = "fetch"
  /\ last.result.kind = "reject"

\* C5: close() never raises, on a client that was never connected and on a
\* client already closed, and leaves the client with no open connection.
C5_CloseNeverRaises ==
  last.kind = "close" =>
    /\ ~last.raised
    /\ connection = 0 \/ connection \in ended

\* C6: at most one command is awaiting its outcome on a connection at any
\* time, however the caller interleaves its operation calls.
C6_OneCommandInFlight ==
  \A i, j \in 1..Len(inflight) : i # j => inflight[i].conn # inflight[j].conn

\* C7: at most one connection created by the client is open; a connection
\* replaced by a later connect is not left open, and after close none is.
C7_AtMostOneOpenConnection ==
  /\ Cardinality((1..nconn) \ ended) <= 1
  /\ (last.kind = "close" /\ ~last.raised) => (1..nconn) \ ended = {}

\* C8: describeScope rejects with RemoteScopeNotFound, and with nothing
\* else, on a missing connection, a missing outcome object, any non-zero
\* status and an undecodable or unparsable payload; it resolves only when
\* the exec succeeded and the payload parsed.
C8_DescribeScopeUniform ==
  (last.call.op = "describeScope"
     /\ \/ last.kind = "callback" /\ last.res # undefined
        \/ last.kind = "call" /\ ~last.sent) =>
    LET failed ==
          \/ last.kind = "call"
          \/ ~last.o.present
          \/ last.o.code \notin {0, NoCode}
          \/ ~JSONparse(fromBase64(clean(last.res[1]))).ok
    IN /\ failed => last.result = Reject("RemoteScopeNotFound", undefined)
       /\ last.result.kind = "resolve" => ~failed
       /\ last.result.kind = "reject" => last.result.error = "RemoteScopeNotFound"

\* C9: show on a successful exec whose output is empty or holds only line
\* terminators resolves with null ("not found") and does not fail; any
\* other result it resolves with is exactly one component.
C9_ShowEmptyPayload ==
  (last.kind = "callback" /\ last.call.op = "show"
     /\ last.o.present /\ last.o.code = 0 /\ last.res # undefined) =>
    /\ AllNewlines(last.res[1]) => last.result = Resolve(<< <<>> >>)
    /\ last.result.kind = "resolve" => Len(last.result.value) = 1

\* the components list is to return for these items: those of the items
\* that are not empty and deserialize to an object, in payload order
RECURSIVE ListExpected(_)
ListExpected(items) ==
  IF items = <<>> THEN <<>>
  ELSE (IF Head(items) # <<>> /\ fromString(Head(items)).kind = "ok"
        THEN <<Str(fromString(Head(items)).value)>> ELSE <<>>)
       \o ListExpected(Tail(items))

\* C10: when list's exec succeeds and every item of the payload is empty,
\* deserializes to nil or deserializes to a component, list resolves with
\* exactly the components of the non-nil items, in payload order; no nil is
\* surfaced and no nil or empty item makes the call fail.
C10_ListDropsNils ==
  (last.kind = "callback" /\ last.call.op = "list" /\ last.exec.kind = "resolve") =>
    LET items == unpack(last.exec.value[1][1])
        clear == \A i \in 1..Len(items) :
                   items[i] = <<>> \/ fromString(items[i]).kind # "throw"
    IN /\ clear => last.result = Resolve(ListExpected(items))
       /\ last.result.kind = "resolve" =>
            /\ last.result.value = ListExpected(items)
            /\ \A i \in 1..Len(last.result.value) : last.result.value[i] # <<>>

C10_Witness ==
  /\ last.kind = "callback"
  /\ last.call.op = "list"
  /\ last.result.kind = "resolve"
  /\ last.res # undefined
  /\ LET items == unpack(clean(last.res[1]))
     IN /\ \E i \in 1..Len(items) : items[i] = <<>>
        /\ \E i \in 1..Len(items) : items[i] = NilDocument
        /\ Len(last.result.value) = 1
\* the bundles fetch is to return for these items: those of the items that
\* are not empty and deserialize to an object, in payload order
RECURSIVE FetchExpected(_)
FetchExpected(items) ==
  IF items = <<>> THEN <<>>
  ELSE (IF Head(items) # <<>> /\ fromString(Head(items)).kind = "ok"
        THEN <<Str(fromString(Head(items)).value)>> ELSE <<>>)
       \o FetchExpected(Tail(items))

\* C11: when fetch's exec succeeds and every item of the payload is empty,
\* deserializes to nil or deserializes to a bundle, fetch resolves with
\* exactly the bundles of the non-nil items, in payload order; a nil or
\* empty item is dropped, is never an element of the result and does not
\* make the call fail.
C11_FetchDropsNils ==
  (last.kind = "callback" /\ last.call.op = "fetch" /\ last.exec.kind = "resolve"
     /\ last.o.code = 0) =>
    LET items == unpack(last.exec.value[1][1])
        clear == \A i \in 1..Len(items) :
                   items[i] = <<>> \/ fromString(items[i]).kind # "throw"
    IN /\ clear => last.result = Resolve(FetchExpected(items))
       /\ last.result.kind = "resolve" =>
            \A i \in 1..Len(last.result.value) : last.result.value[i] # <<>>

ClassifierKinds ==
  {"UnexpectedNetworkError", "ComponentNotFound", "PermissionDenied", "RemoteScopeNotFound"}

\* C12: push hands over one `_put` command whose single argument is the
\* serialized objects; when the exec succeeds and the output is the
\* transport encoding of the serialized objects, push resolves with an
\* object equal to the one pushed; when the exec succeeds and the output
\* does not deserialize, push rejects with a NetworkError, which is none of
\* the classifier's kinds.
C12_PushRoundTrip ==
  /\ \A i \in 1..Len(inflight) :
       inflight[i].call.op = "push" =>
         inflight[i].cmd =
           <<"b", "i", "t", " ", "_", "p", "u", "t", " ">>
             \o toBase64(IF path # <<>> /\ path[1] = "/" THEN path ELSE <<"~", "/">> \o path)
             \o <<" ">> \o toBase64(inflight[i].call.text)
  /\ (last.kind = "callback" /\ last.call.op = "push" /\ last.exec.kind = "resolve") =>
       LET str == last.exec.value[1][1]
       IN /\ str = toBase64(last.call.text) =>
               last.result = Resolve(<<Str(fromString(last.call.text).value)>>)
          /\ fromString(fromBase64(str)).kind = "throw" =>
               /\ last.result.kind = "reject"
               /\ last.result.error = "NetworkError"
               /\ last.result.error \notin ClassifierKinds

C12_Witness ==
  /\ last.kind = "callback"
  /\ last.call.op = "push"
  /\ last.res = Str(toBase64(last.call.text) \o <<NL>>)
  /\ last.result = Resolve(<<Str(last.call.text)>>)

\* the command line of the wire form: tool name, bare operation name, the
\* normalized working path and then each argument, every one of them
\* encoded on its own, joined by single spaces
WireOperation(c) ==
  IF c.op = "fetch" THEN <<"_", "f", "e", "t", "c", "h">> ELSE commandName(c)
WireArgs(c) ==
  IF c.op = "fetch" /\ c.flag THEN <<<<"-", "n">>>> \o c.ids ELSE execArgs(c)
WireForm(p, c) ==
  LET args == <<absolutePath(p)>> \o WireArgs(c)
  IN JoinSpace(<<<<"b", "i", "t">>, WireOperation(c)>>
                 \o [i \in 1..Len(args) |-> toBase64(args[i])])

\* C13: every command line handed to the connection has the wire form
\* `bit <operation> <base64(workingPath)> <base64(arg1)> ... <base64(argN)>`;
\* fetch with noDependencies sends `_fetch`, the encoded working path, the
\* encoded no-dependencies flag and then each encoded id in caller order.
C13_WireForm ==
  \A i \in 1..Len(inflight) : inflight[i].cmd = WireForm(path, inflight[i].call)

\* C18: once the callback is delivered the exec promise is settled, either
\* resolved or rejected with a failure of the taxonomy, for every
\* combination of error object, output and status; it is never left
\* pending and never resolves when the channel reported an error.
C18_ExecSettles ==
  last.kind = "callback" =>
    /\ last.exec.kind \in {"resolve", "reject"}
    /\ last.exec.kind = "reject" => last.exec.error \in ClassifierKinds
    /\ last.err.present => last.exec.kind = "reject"

\* the text with its first newline taken out, every other character kept
FirstNewlineRemoved(s) ==
  IF \A i \in 1..Len(s) : s[i] # NL THEN s
  ELSE LET i == CHOOSE k \in 1..Len(s) : s[k] = NL /\ \A j \in 1..(k - 1) : s[j] # NL
       IN SubSeq(s, 1, i - 1) \o SubSeq(s, i + 1, Len(s))

\* C19: when exec resolves, it resolves with the remote output from which
\* only the first newline has been removed; every other character, later
\* newlines included, is kept in order.
C19_OnlyFirstNewlineRemoved ==
  (last.kind = "callback" /\ last.exec.kind = "resolve") =>
    last.exec.value = <<Str(FirstNewlineRemoved(last.res[1]))>>

C19_Witness ==
  /\ last.kind = "callback"
  /\ last.exec.kind = "resolve"
  /\ Len(last.res[1]) = 3
  /\ last.res[1][1] = NL
  /\ last.res[1][3] = NL
  /\ last.exec.value = <<Str(<<last.res[1][2], NL>>)>>
\* C14: connect fails whenever authentication or network setup fails, before
\* any command is sent: it resolves only when the connection it created is
\* established, and no command is handed to a connection that is not.
C14_ConnectFailsOnSetupFailure ==
  /\ (last.kind = "connect" /\ last.result.kind = "resolve") => conns[last.conn].up
  /\ \A i \in 1..Len(inflight) : conns[inflight[i].conn].up

\* C15: an operation call on an open connection hands exactly one command to
\* it, and the delivery of a callback, whatever the outcome, hands over none:
\* a failed command is not retried.
C15_ExactlyOneCommand ==
  [][/\ (last'.kind = "call" /\ connection # 0) => Len(inflight') = Len(inflight) + 1
     /\ last'.kind = "callback" => Len(inflight') = Len(inflight) - 1]_vars

C15_Witness ==
  /\ last.kind = "callback"
  /\ last.call.op = "fetch"
  /\ last.exec.kind = "reject"
  /\ inflight = <<>>

\* C16: no connect, operation call, callback or close changes path,
\* username, port or host, and every connection the client creates targets
\* username@host:port of the constructed endpoint.
C16_EndpointImmutable ==
  /\ [][path' = path /\ username' = username /\ port' = port /\ host' = host]_vars
  /\ [](\A i \in 1..Len(conns) : conns[i].url = username \o <<"@">> \o host \o <<":">> \o port)

C16_Witness ==
  /\ last.kind = "close"
  /\ ~last.raised
  /\ host = <<"h">>
  /\ Len(conns) = 1
  /\ conns[1].url = <<"u", "@", "h", ":", "2", "2">>

\* the working path as the remote side is to receive it
NormalizedPath(p) == IF p # <<>> /\ p[1] = "/" THEN p ELSE <<"~", "/">> \o p

\* C17: the command line of every operation starts with the tool name, the
\* command name and the encoding of the normalized working path: the stored
\* path itself when it starts with '/', otherwise `~/` followed by it (also
\* when it is empty); handing over a command leaves the stored path as is.
C17_PathNormalized ==
  [][/\ path' = path
     /\ Len(inflight') = Len(inflight) + 1 =>
          LET cmd == inflight'[Len(inflight')].cmd
              pre == <<"b", "i", "t", " ">> \o commandName(last'.call) \o <<" ">>
                       \o toBase64(NormalizedPath(path))
          IN /\ Len(cmd) >= Len(pre)
             /\ SubSeq(cmd, 1, Len(pre)) = pre
             /\ Len(cmd) > Len(pre) => cmd[Len(pre) + 1] = " "]_vars

C17_Witness ==
  /\ path = <<>>
  /\ last.kind = "call"
  /\ last.call.op = "show"
  /\ Len(inflight) = 1
  /\ inflight[1].cmd =
       <<"b", "i", "t", " ", "_", "s", "h", "o", "w", " ">> \o toBase64(<<"~", "/">>)
         \o <<" ">> \o toBase64(IdA)
====
